---- MODULE Spec2Model ----
(***************************************************************************)
(* trilogy: the hook registry (src/src/hooks.ts), the lifecycle of the     *)
(* mutating model operations that pass through it, the embedded sql.js     *)
(* datastore with its export-to-file persistence, decrement's update       *)
(* expression, and the database handle (constructor, use, model,           *)
(* dropModel, raw, close).                                                 *)
(***************************************************************************)
EXTENDS Naturals, Integers, Sequences, FiniteSets, TLC

(***************************************************************************)
(* Bounds                                                                  *)
(***************************************************************************)
\* number of register calls (onQuery, beforeCreate, ...) in one behaviour
MaxRegs == 3

\* number of distinct lifecycle events the program registers callbacks for
MaxEvents == 1

\* number of register / removal invocations made while one _callHook
\* invocation is in progress (by its callbacks or by other code at its awaits)
MaxMidCall == 1

\* number of mutating statements the backend accepts in one behaviour
MaxWrites == 1

\* rows a table of the embedded datastore holds at most
MaxRows == 2

\* operations of the embedded datastore whose promises are unsettled at once
MaxPending == 1

\* further operations issued while the promises of accepted insert / update /
\* del calls are still unsettled
MaxOverlap == 1

\* decrement: the stored integer starts within -MaxStored..MaxStored, the
\* amount is within -MaxAmount..MaxAmount, and MaxDecrements calls are made
MaxStored == 3

MaxAmount == 4

MaxDecrements == 3

\* calls of model() on one handle
MaxModelCalls == 2

\* length of the arrays passed as criteria
MaxArray == 4

\* length of the table and column names given to _parseTablePath
MaxName == 2

(***************************************************************************)
(* Values                                                                  *)
(***************************************************************************)
\* the callback functions a program may pass to the register functions
Fns == {"f", "g"}

\* an argument that is not a function (typeof fn !== 'function')
NotAFunction == "notfn"

OnQuery == "ON_QUERY"
BeforeCreate == "BEFORE_CREATE"
AfterCreate == "AFTER_CREATE"
BeforeUpdate == "BEFORE_UPDATE"
AfterUpdate == "AFTER_UPDATE"
BeforeRemove == "BEFORE_REMOVE"
AfterRemove == "AFTER_REMOVE"

Hook ==
  {OnQuery, BeforeCreate, AfterCreate, BeforeUpdate, AfterUpdate,
   BeforeRemove, AfterRemove}

EventCancellation == "trilogy.EventCancellation"

\* what one invocation of a callback ends in: it returns (a promise of) an
\* ordinary value, returns (a promise of) EventCancellation, or throws /
\* returns a rejected promise
Outcomes == {"value", EventCancellation, "throws"}

\* the private listener sets of class Hooks
SetNames ==
  {"_onQuery", "_onQueryAll", "_beforeCreate", "_afterCreate",
   "_beforeUpdate", "_afterUpdate", "_beforeRemove", "_afterRemove"}

\* a removal capability is a closure over (register function, fn, and for
\* onQuery the includeInternal branch taken); closures with the same captured
\* values behave alike
Kinds ==
  {k \in [hook : Hook, fn : Fns, includeInternal : BOOLEAN] :
     k.includeInternal => k.hook = OnQuery}

VARIABLES
  listeners,   \* the eight Set objects, each as its insertion-ordered entries
  call,        \* the _callHook invocation in progress (its loop position, result)
  live,        \* per kind: registrations whose removal capability was not yet invoked
  used,        \* per kind: how often an already issued capability was invoked (0, 1, 2 = more)
  nRegs,       \* register calls made so far
  order,       \* per set: current members in the order of their first registration
  op,          \* the create / update / remove operation in progress
  store        \* the backend's stored data, as the number of statements applied to it

hookVars == <<listeners, call, live, used, nRegs, order>>

opVars == <<op, store>>

\* the embedded datastore (class Trilogy over sql.js)
VARIABLES
  db,          \* this.db: the sql.js engine's in-memory database
  file,        \* the backing file at this.fileName
  pend,        \* promises returned by public operations and not yet settled
  settled,     \* the promise settled most recently
  lost,        \* whether the most recent export failed to reach the file
  opened       \* whether the constructor has run _init

dbVars == <<db, file, pend, settled, lost, opened>>

\* one integer column of one row, as decrement changes it
VARIABLES
  cell         \* the stored value, with the history of the decrements applied

cellVars == <<cell>>

\* arguments of the public operations, as they are validated and parsed
VARIABLES
  criteria,    \* the operation called last with a where argument, and how far
               \* it got
  path         \* the table path parsed last, and what it was parsed to

argVars == <<criteria, path>>

\* the database handle (class Trilogy of part_001)
VARIABLES
  options,     \* this.options: the validated constructor options
  self,        \* own properties of the handle that a plugin may name
  definitions, \* this._definitions: model name -> model
  tables,      \* the tables that exist in the backend
  jobs,        \* model() and dropModel() calls whose promise is unsettled
  sent,        \* per table name: create-table statements sent to the backend
  returned,    \* what model() gave most recently for a name already defined,
               \* and what dropModel() resolved to most recently
  pool,        \* this.pool (embedded) or the driver connection (native)
  counts       \* model() calls made so far; whether an extending object
               \* named isNative

handleVars ==
  <<options, self, definitions, tables, jobs, sent, returned, pool, counts>>

(***************************************************************************)
(* ECMAScript Set, as the insertion-ordered list of its entries            *)
(***************************************************************************)
SetHas(s, x) == \E i \in 1..Len(s) : s[i] = x

\* an add that does not look for an existing entry
SetAddAlways(s, x) == Append(s, x)

SetAdd(s, x) == IF SetHas(s, x) THEN s ELSE Append(s, x)

SetDelete(s, x) == SelectSeq(s, LAMBDA y : y # x)

Members(s) == {s[i] : i \in 1..Len(s)}

\* a choice of set that does not look at the internal flag
FnsOfIgnoringInternal(hook, internal) ==
  CASE hook = OnQuery -> "_onQuery"
    [] hook = BeforeCreate -> "_beforeCreate"
    [] hook = AfterCreate -> "_afterCreate"
    [] hook = BeforeUpdate -> "_beforeUpdate"
    [] hook = AfterUpdate -> "_afterUpdate"
    [] hook = BeforeRemove -> "_beforeRemove"
    [] hook = AfterRemove -> "_afterRemove"

\* the set that _callHook iterates for a hook
FnsOf(hook, internal) ==
  CASE hook = OnQuery -> (IF internal THEN "_onQueryAll" ELSE "_onQuery")
    [] hook = BeforeCreate -> "_beforeCreate"
    [] hook = AfterCreate -> "_afterCreate"
    [] hook = BeforeUpdate -> "_beforeUpdate"
    [] hook = AfterUpdate -> "_afterUpdate"
    [] hook = BeforeRemove -> "_beforeRemove"
    [] hook = AfterRemove -> "_afterRemove"

(***************************************************************************)
(* Register functions and the removal capabilities they return            *)
(***************************************************************************)
\* the listener sets after onQuery(fn, options)
onQueryAdd(L, fn, includeInternal) ==
  IF includeInternal
    THEN [L EXCEPT !["_onQuery"] = SetAdd(@, fn),
                   !["_onQueryAll"] = SetAdd(@, fn)]
    ELSE [L EXCEPT !["_onQuery"] = SetAdd(@, fn)]

\* the listener sets after beforeCreate(fn), ..., afterRemove(fn)
hookAdd(L, hook, fn) ==
  [L EXCEPT ![FnsOf(hook, FALSE)] = SetAdd(@, fn)]

\* a closure that deletes from the second set only when the first delete
\* found nothing (|| in place of &&)
onQueryRemoveEither(L, fn, includeInternal) ==
  IF includeInternal
    THEN IF SetHas(L["_onQueryAll"], fn)
           THEN [L EXCEPT !["_onQueryAll"] = SetDelete(@, fn)]
           ELSE [L EXCEPT !["_onQuery"] = SetDelete(@, fn)]
    ELSE [L EXCEPT !["_onQuery"] = SetDelete(@, fn)]

\* the closure returned by onQuery:
\*   includeInternal: () => this._onQueryAll.delete(fn) && this._onQuery.delete(fn)
\*   otherwise:       () => this._onQuery.delete(fn)
onQueryRemove(L, fn, includeInternal) ==
  IF includeInternal
    THEN IF SetHas(L["_onQueryAll"], fn)
           THEN [L EXCEPT !["_onQueryAll"] = SetDelete(@, fn),
                          !["_onQuery"] = SetDelete(@, fn)]
           ELSE L
    ELSE [L EXCEPT !["_onQuery"] = SetDelete(@, fn)]

\* the closure returned by beforeCreate, ..., afterRemove
hookRemove(L, hook, fn) ==
  [L EXCEPT ![FnsOf(hook, FALSE)] = SetDelete(@, fn)]

Registered(L, k) ==
  IF k.hook = OnQuery
    THEN onQueryAdd(L, k.fn, k.includeInternal)
    ELSE hookAdd(L, k.hook, k.fn)

Unregistered(L, k) ==
  IF k.hook = OnQuery
    THEN onQueryRemove(L, k.fn, k.includeInternal)
    ELSE hookRemove(L, k.hook, k.fn)

\* members of each set in the order in which they entered it
OrderAfter(O, L2) ==
  [n \in SetNames |->
     LET kept == SelectSeq(O[n], LAMBDA x : SetHas(L2[n], x))
         new == Members(L2[n]) \ Members(O[n])
     IN IF new = {} THEN kept ELSE Append(kept, CHOOSE x \in new : TRUE)]

\* no _callHook invocation is in progress
NoCall ==
  [st |-> "idle", hook |-> OnQuery, internal |-> FALSE, pos |-> 0,
   log |-> <<>>, prevented |-> FALSE, error |-> "none",
   start |-> <<>>, startLive |-> {}, removed |-> {}, mid |-> 0]

\* a Set iterator keeps its place when entries before it are deleted
\* (deleted entries become empty slots; added entries go to the end)
Iterating(c) == c.st \in {"next", "await"}

\* no create / update / remove is in progress
NoOp ==
  [kind |-> "create", phase |-> "idle", sent |-> FALSE, n |-> 0,
   was |-> 0, error |-> "none", vetoed |-> FALSE]

InProgress(o) == o.phase \in {"query", "before", "after"}

\* a settled operation's outcome has been taken by its caller when the
\* registry is next used
OpAfter(o) == IF InProgress(o) THEN o ELSE NoOp

\* a settled call's result has been taken by its caller when the registry is
\* next used
CallAfter(c, L, L2) ==
  IF c.st \in {"resolved", "rejected"} /\ ~InProgress(op) THEN NoCall
  ELSE IF Iterating(c)
    THEN LET n == FnsOf(c.hook, c.internal)
             seen == SubSeq(L[n], 1, c.pos)
         IN [c EXCEPT !.pos = Len(SelectSeq(seen, LAMBDA x : SetHas(L2[n], x))),
                      !.removed = @ \cup (Members(L[n]) \ Members(L2[n])),
                      !.mid = @ + 1]
    ELSE c

\* _callHook runs without yielding from its entry to its first callback:
\* other code runs during a firing only after a callback has been called
MidCallOk == Iterating(call) => (call.log # <<>> /\ call.mid < MaxMidCall)

\* the events that callbacks were registered for so far
EventsUsed == {k.hook : k \in {x \in Kinds : live[x] > 0 \/ used[x] > 0}}

\* register function called with fn; returns a removal capability of kind k
Register(k) ==
  /\ nRegs < MaxRegs
  /\ MidCallOk
  /\ Cardinality(EventsUsed \cup {k.hook}) <= MaxEvents
  /\ listeners' = Registered(listeners, k)
  /\ order' = OrderAfter(order, listeners')
  /\ call' = CallAfter(call, listeners, listeners')
  /\ live' = [live EXCEPT ![k] = @ + 1]
  /\ nRegs' = nRegs + 1
  /\ op' = OpAfter(op)
  /\ UNCHANGED <<used, store, dbVars, cellVars, handleVars, argVars>>

\* invariant(typeof fn === 'function', ...): anything else throws before a
\* set is touched
RegisterInvalid(fn) ==
  /\ fn = NotAFunction
  /\ UNCHANGED <<hookVars, opVars, dbVars, cellVars, handleVars, argVars>>

onQuery(fn, includeInternal) ==
  \/ /\ fn \in Fns
     /\ Register([hook |-> OnQuery, fn |-> fn, includeInternal |-> includeInternal])
  \/ RegisterInvalid(fn)

registerHook(hook, fn) ==
  \/ /\ fn \in Fns
     /\ Register([hook |-> hook, fn |-> fn, includeInternal |-> FALSE])
  \/ RegisterInvalid(fn)

beforeCreate(fn) == registerHook(BeforeCreate, fn)
afterCreate(fn) == registerHook(AfterCreate, fn)
beforeUpdate(fn) == registerHook(BeforeUpdate, fn)
afterUpdate(fn) == registerHook(AfterUpdate, fn)
beforeRemove(fn) == registerHook(BeforeRemove, fn)
afterRemove(fn) == registerHook(AfterRemove, fn)

\* a removal capability of kind k is invoked for the first time
Remove(k) ==
  /\ live[k] > 0
  /\ MidCallOk
  /\ listeners' = Unregistered(listeners, k)
  /\ order' = OrderAfter(order, listeners')
  /\ call' = CallAfter(call, listeners, listeners')
  /\ live' = [live EXCEPT ![k] = @ - 1]
  /\ used' = [used EXCEPT ![k] = IF @ = 0 THEN 1 ELSE @]
  /\ op' = OpAfter(op)
  /\ UNCHANGED <<nRegs, store, dbVars, cellVars, handleVars, argVars>>

\* a removal capability that was invoked before is invoked again
RemoveAgain(k) ==
  /\ used[k] > 0
  /\ MidCallOk
  /\ listeners' = Unregistered(listeners, k)
  /\ order' = OrderAfter(order, listeners')
  /\ call' = CallAfter(call, listeners, listeners')
  /\ used' = [used EXCEPT ![k] = 2]
  /\ op' = OpAfter(op)
  /\ UNCHANGED <<live, nRegs, store, dbVars, cellVars, handleVars, argVars>>

(***************************************************************************)
(* _callHook                                                               *)
(***************************************************************************)
\* callbacks that have a registration, for the event fired, whose own
\* removal capability was not invoked
LiveFor(hook, internal) ==
  {fn \in Fns :
     IF hook = OnQuery
       THEN \/ live[[hook |-> OnQuery, fn |-> fn, includeInternal |-> TRUE]] > 0
            \/ /\ ~internal
               /\ live[[hook |-> OnQuery, fn |-> fn, includeInternal |-> FALSE]] > 0
       ELSE live[[hook |-> hook, fn |-> fn, includeInternal |-> FALSE]] > 0}

Pending(c) == {i \in 1..Len(c.log) : c.log[i].ret = "pending"}

\* some callback of the call returned EventCancellation
HasCancel(c) == \E i \in 1..Len(c.log) : c.log[i].ret = EventCancellation

\* entry: result = { prevented: false }, fns chosen, iterator created
Entered(hook, internal) ==
  [NoCall EXCEPT !.st = "next", !.hook = hook, !.internal = internal,
                 !.start = order[FnsOf(hook, internal)],
                 !.startLive = LiveFor(hook, internal)]

\* _callHook called on its own (a query observer fired, a hook fired by a
\* caller that is not tracked as an operation)
callHookEnter(hook, internal) ==
  /\ call.st \in {"idle", "resolved", "rejected"}
  /\ op.phase \in {"idle", "resolved", "rejected"}
  /\ internal => hook = OnQuery
  /\ hook \in EventsUsed
  /\ call' = Entered(hook, internal)
  /\ UNCHANGED <<listeners, live, used, nRegs, order, op, store, dbVars, cellVars, handleVars, argVars>>

\* a loop that does not await the callback before taking the next entry
CanStepWithoutAwait(c) == c.st \in {"next", "await"}

\* the loop may take its next entry only when the previous await has finished
CanStep(c) == c.st = "next"

\* for (const fn of fns) { ... fn(...) : the next entry is called
callHookInvoke ==
  /\ call.st \in {"next", "await"}
  /\ CanStep(call)
  /\ call.pos < Len(listeners[FnsOf(call.hook, call.internal)])
  /\ LET fn == listeners[FnsOf(call.hook, call.internal)][call.pos + 1]
     IN call' = [call EXCEPT !.st = "await", !.pos = @ + 1,
                             !.log = Append(@, [fn |-> fn, ret |-> "pending"])]
  /\ UNCHANGED <<listeners, live, used, nRegs, order, op, store, dbVars, cellVars, handleVars, argVars>>

\* a loop that returns as soon as one callback cancels
SettledReturnsOnCancel(c, i, ret) ==
  LET logged == [c EXCEPT !.log[i].ret = ret]
  IN CASE ret = "throws" ->
            [logged EXCEPT !.st = "rejected", !.error = c.log[i].fn]
       [] ret = EventCancellation ->
            [logged EXCEPT !.st = "resolved", !.prevented = TRUE]
       [] OTHER ->
            [logged EXCEPT !.st = "next"]

\* a loop that does not compare the result with EventCancellation
SettledIgnoresCancel(c, i, ret) ==
  LET logged == [c EXCEPT !.log[i].ret = ret]
  IN CASE ret = "throws" ->
            [logged EXCEPT !.st = "rejected", !.error = c.log[i].fn]
       [] OTHER ->
            [logged EXCEPT !.st = "next"]

\* a loop that catches what a callback throws and goes on
SettledSwallowsThrow(c, i, ret) ==
  LET logged == [c EXCEPT !.log[i].ret = ret]
  IN CASE ret = EventCancellation ->
            [logged EXCEPT !.st = "next", !.prevented = TRUE]
       [] OTHER ->
            [logged EXCEPT !.st = "next"]

\* the call record after the awaited callback at log index i ended in ret
Settled(c, i, ret) ==
  LET logged == [c EXCEPT !.log[i].ret = ret]
  IN CASE ret = "throws" ->
            [logged EXCEPT !.st = "rejected", !.error = c.log[i].fn]
       [] ret = EventCancellation ->
            [logged EXCEPT !.st = "next", !.prevented = TRUE]
       [] OTHER ->
            [logged EXCEPT !.st = "next"]

\* await fn(...) completes; if (thisResult === EventCancellation) prevented = true
callHookSettle(ret) ==
  /\ call.st = "await"
  /\ \E i \in Pending(call) : call' = Settled(call, i, ret)
  /\ UNCHANGED <<listeners, live, used, nRegs, order, op, store, dbVars, cellVars, handleVars, argVars>>

\* the iterator is exhausted: return result
callHookReturn ==
  /\ call.st = "next"
  /\ call.pos >= Len(listeners[FnsOf(call.hook, call.internal)])
  /\ call' = [call EXCEPT !.st = "resolved"]
  /\ UNCHANGED <<listeners, live, used, nRegs, order, op, store, dbVars, cellVars, handleVars, argVars>>

(***************************************************************************)
(* Mutating model operations (dispatcher contract, steps 1 to 5)           *)
(***************************************************************************)
OpKinds == {"create", "update", "remove"}

BeforeOf(kind) ==
  CASE kind = "create" -> BeforeCreate
    [] kind = "update" -> BeforeUpdate
    [] kind = "remove" -> BeforeRemove

AfterOf(kind) ==
  CASE kind = "create" -> AfterCreate
    [] kind = "update" -> AfterUpdate
    [] kind = "remove" -> AfterRemove

\* (1) the operation starts by firing on-query for its statement
opBegin(kind) ==
  /\ ~InProgress(op)
  /\ ~Iterating(call)
  /\ op' = [NoOp EXCEPT !.kind = kind, !.phase = "query", !.was = store]
  /\ call' = Entered(OnQuery, FALSE)
  /\ UNCHANGED <<listeners, live, used, nRegs, order, store, dbVars, cellVars, handleVars, argVars>>

\* (2) the matching before-* hook is fired
opFireBefore ==
  /\ op.phase = "query"
  /\ call.st = "resolved"
  /\ op' = [op EXCEPT !.phase = "before"]
  /\ call' = Entered(BeforeOf(op.kind), FALSE)
  /\ UNCHANGED <<listeners, live, used, nRegs, order, store, dbVars, cellVars, handleVars, argVars>>

\* (2) prevented: the statement is skipped, the outcome is the no-op outcome
opPrevented ==
  /\ op.phase = "before"
  /\ call.st = "resolved"
  /\ call.prevented
  /\ op' = [op EXCEPT !.phase = "resolved", !.n = 0, !.vetoed = HasCancel(call)]
  /\ UNCHANGED <<listeners, call, live, used, nRegs, order, store, dbVars, cellVars, handleVars, argVars>>

\* (3, 4) the statement goes to the backend adapter, which applies it; then
\* (5) the matching after-* hook is fired with the outcome
opExecute ==
  /\ op.phase = "before"
  /\ call.st = "resolved"
  /\ ~call.prevented
  /\ store < MaxWrites
  /\ store' = store + 1
  /\ op' = [op EXCEPT !.phase = "after", !.sent = TRUE, !.n = 1,
                      !.vetoed = HasCancel(call)]
  /\ call' = Entered(AfterOf(op.kind), FALSE)
  /\ UNCHANGED <<listeners, live, used, nRegs, order, dbVars, cellVars, handleVars, argVars>>

\* (3) the backend rejects the statement: the failure propagates
opBackendFails ==
  /\ op.phase = "before"
  /\ call.st = "resolved"
  /\ ~call.prevented
  /\ op' = [op EXCEPT !.phase = "rejected", !.sent = TRUE, !.error = "backend",
                      !.vetoed = HasCancel(call)]
  /\ UNCHANGED <<listeners, call, live, used, nRegs, order, store, dbVars, cellVars, handleVars, argVars>>

\* (5) the after-* firing is over: the outcome is returned
opReturn ==
  /\ op.phase = "after"
  /\ call.st = "resolved"
  /\ op' = [op EXCEPT !.phase = "resolved"]
  /\ UNCHANGED <<listeners, call, live, used, nRegs, order, store, dbVars, cellVars, handleVars, argVars>>

\* a hook callback threw: fatal for the operation
opHookThrew ==
  /\ InProgress(op)
  /\ call.st = "rejected"
  /\ op' = [op EXCEPT !.phase = "rejected", !.error = call.error,
                      !.vetoed = op.phase = "before" /\ HasCancel(call)]
  /\ UNCHANGED <<listeners, call, live, used, nRegs, order, store, dbVars, cellVars, handleVars, argVars>>

(***************************************************************************)
(* Embedded datastore: sql.js engine, export to the backing file           *)
(***************************************************************************)
\* statements, by what they do to the engine: create table if not exists,
\* insert, update (also the updates built by increment and decrement),
\* delete, select (also select count), and a statement the engine rejects
Stmts == {"create", "insert", "update", "delete", "select", "bad"}

\* statements that change schema or data
Mutates(q) == q \in {"create", "insert", "update", "delete"}

\* a fresh engine: new SQL.Database()
EmptyDb == [table |-> FALSE, rows |-> 0, rev |-> 0, modified |-> 0]

\* db.export(): the image holds schema and data, not the connection's
\* rows-modified counter
Export(d) == [table |-> d.table, rows |-> d.rows, rev |-> d.rev]

\* new SQL.Database(file)
Load(image) ==
  [table |-> image.table, rows |-> image.rows, rev |-> image.rev,
   modified |-> 0]

NoFile == [exists |-> FALSE, image |-> Export(EmptyDb)]

\* jetpack.file(fileName, { content: buffer }): the file is overwritten
Written(d) == [exists |-> TRUE, image |-> Export(d)]

\* the engine executes statement q on d
Apply(d, q) ==
  CASE q = "create" ->
         [ok |-> TRUE, db |-> [d EXCEPT !.table = TRUE]]
    [] q = "insert" /\ d.table ->
         [ok |-> TRUE, db |-> [d EXCEPT !.rows = @ + 1, !.modified = 1]]
    [] q = "update" /\ d.table ->
         [ok |-> TRUE,
          db |-> [d EXCEPT !.rev = IF d.rows > 0 THEN 1 - @ ELSE @,
                           !.modified = d.rows]]
    [] q = "delete" /\ d.table ->
         [ok |-> TRUE, db |-> [d EXCEPT !.rows = 0, !.modified = d.rows]]
    [] q = "select" /\ d.table ->
         [ok |-> TRUE, db |-> d]
    [] OTHER ->
         [ok |-> FALSE, db |-> d]

\* what a promise is rejected with: the object the engine threw, or an Error
\* made by _errorHandler from a message
NoError == "none"

EngineError == "engine error"

TrilogyError == "TrilogyError"

\* the table's size is bounded
Fits(d, q) == (q = "insert" /\ d.table) => d.rows < MaxRows

\* _write(): export the engine and overwrite the file; a failure goes to
\* _errorHandler, whose rejected promise nobody takes
WriteEffect(d, f, writeOk) ==
  [file |-> IF writeOk THEN Written(d) ELSE f, heard |-> ~writeOk]

\* run with _write() outside the try: the export happens whether or not the
\* engine accepted the statement
RunEffectAlwaysWrites(d, f, q, writeOk) ==
  LET r == Apply(d, q)
  IN [db |-> r.db, file |-> WriteEffect(r.db, f, writeOk).file,
      ok |-> r.ok, exported |-> TRUE,
      heard |-> WriteEffect(r.db, f, writeOk).heard,
      error |-> IF r.ok THEN NoError ELSE EngineError,
      writeFailed |-> ~writeOk, own |-> r.db.modified,
      sentN |-> 1, reported |-> 1]

\* run with _write() before db.run(query): the image written is the one
\* before the statement
RunEffectExportsFirst(d, f, q, writeOk) ==
  LET r == Apply(d, q)
  IN IF r.ok
       THEN [db |-> r.db, file |-> WriteEffect(d, f, writeOk).file,
             ok |-> TRUE, exported |-> TRUE,
             heard |-> WriteEffect(d, f, writeOk).heard,
             error |-> NoError, writeFailed |-> ~writeOk,
             own |-> r.db.modified, sentN |-> 1, reported |-> 1]
       ELSE [db |-> d, file |-> f, ok |-> FALSE, exported |-> FALSE,
             heard |-> FALSE, error |-> EngineError, writeFailed |-> FALSE,
             own |-> 0, sentN |-> 1, reported |-> 1]

\* run: this.verbose(query), then the promise executor
\* db.run(query); _write(); resolve()
\*                              catch (e) { reject(e) }
RunEffect(d, f, q, writeOk) ==
  LET r == Apply(d, q)
  IN IF r.ok
       THEN [db |-> r.db, file |-> WriteEffect(r.db, f, writeOk).file,
             ok |-> TRUE, exported |-> TRUE,
             heard |-> WriteEffect(r.db, f, writeOk).heard,
             error |-> NoError, writeFailed |-> ~writeOk,
             own |-> r.db.modified, sentN |-> 1, reported |-> 1]
       ELSE [db |-> d, file |-> f, ok |-> FALSE, exported |-> FALSE,
             heard |-> FALSE, error |-> EngineError, writeFailed |-> FALSE,
             own |-> 0, sentN |-> 1, reported |-> 1]

\* exec: this.verbose(query), then the promise executor
\* resolve(db.exec(query)); catch (e) { reject(e) }
ExecEffect(d, f, q) ==
  LET r == Apply(d, q)
  IN [db |-> r.db, file |-> f, ok |-> r.ok, exported |-> FALSE,
      heard |-> FALSE, error |-> IF r.ok THEN NoError ELSE EngineError,
      writeFailed |-> FALSE, own |-> IF r.ok THEN r.db.modified ELSE 0,
      sentN |-> 1, reported |-> 1]

\* an operation that ends in _errorHandler before any statement is built
Refused(d, f) ==
  [db |-> d, file |-> f, ok |-> FALSE, exported |-> FALSE, heard |-> TRUE,
   error |-> TrilogyError, writeFailed |-> FALSE, own |-> 0,
   sentN |-> 0, reported |-> 0]

\* try { await run / exec } catch (e) { return this._errorHandler(e) }
Handled(e) == [e EXCEPT !.heard = e.heard \/ ~e.ok]

\* the operation's synchronous part is over: engine and file are as the
\* effect says, the returned promise is pending
\* operations that read the engine's rows-modified counter after awaiting run
RowCounters == {"insert", "update", "del"}

\* the client issues a further call while earlier promises are unsettled:
\* any call up to MaxPending, and up to MaxOverlap calls on top of accepted
\* insert / update / del calls
Room ==
  \/ Len(pend) < MaxPending
  \/ /\ Len(pend) <= MaxOverlap
     /\ \A i \in 1..Len(pend) :
          pend[i].op \in RowCounters /\ pend[i].ok /\ ~pend[i].writeFailed

\* what statement.getAsObject({}) hands to count: a row object with a count
\* field, a row object without it, or nothing that is a plain object
CountResults == {"row", "no field", "no object"}

\* a promise that carries no count
NoValue == [defined |-> TRUE, n |-> 0]

\* count with res.count passed on as it is
CountValueAsIs(res, n) ==
  IF res = "row" THEN [defined |-> TRUE, n |-> n]
                 ELSE [defined |-> FALSE, n |-> 0]

\* if (_.isPlainObject(res) && 'count' in res) resolve(res.count)
\* else resolve(0)
CountValue(res, n) ==
  IF res = "row" THEN [defined |-> TRUE, n |-> n]
                 ELSE [defined |-> TRUE, n |-> 0]

CalledWith(opName, q, e, res, value) ==
  /\ opened
  /\ Room
  /\ db' = e.db
  /\ file' = e.file
  /\ lost' = IF e.exported THEN e.file # Written(e.db) ELSE lost
  /\ pend' = Append(pend, [op |-> opName, q |-> q, ok |-> e.ok,
                           exported |-> e.exported, heard |-> e.heard,
                           error |-> e.error, writeFailed |-> e.writeFailed,
                           own |-> IF opName \in RowCounters THEN e.own
                                                              ELSE 0,
                           res |-> res, value |-> value,
                           sentN |-> e.sentN, reported |-> e.reported])
  /\ UNCHANGED <<settled, opened, hookVars, opVars, cellVars, handleVars, argVars>>

Called(opName, q, e) == CalledWith(opName, q, e, "", NoValue)

run(q, writeOk) ==
  /\ Fits(db, q)
  /\ Called("run", q, RunEffect(db, file, q, writeOk))

exec(q) ==
  /\ Fits(db, q)
  /\ Called("exec", q, ExecEffect(db, file, q))

raw(q, ret, writeOk) ==
  /\ Fits(db, q)
  /\ Called("raw", q,
            Handled(IF ret THEN ExecEffect(db, file, q)
                           ELSE RunEffect(db, file, q, writeOk)))

\* columns must be a non-empty array
createTable(columnsOk, writeOk) ==
  Called("createTable", "create",
         IF columnsOk THEN Handled(RunEffect(db, file, "create", writeOk))
                      ELSE Refused(db, file))

hasTable ==
  Called("hasTable", "select", Handled(ExecEffect(db, file, "select")))

\* tableName must be a non-empty string
insert(tableOk, writeOk) ==
  /\ Fits(db, "insert")
  /\ Called("insert", "insert",
            IF tableOk THEN Handled(RunEffect(db, file, "insert", writeOk))
                       ELSE Refused(db, file))

\* what db.exec hands back for a select: nothing without rows, else one
\* result with its columns and a line of values per row
Contents(d) ==
  IF d.rows = 0 THEN <<>>
  ELSE <<[columns |-> <<"a">>, values |-> [i \in 1..d.rows |-> <<i>>]]>>

\* _parseResponse: one object per line of values, [] without contents
_parseResponse(contents) ==
  IF Len(contents) > 0
    THEN [i \in 1..Len(contents[1].values) |->
            [j \in 1..Len(contents[1].columns) |-> contents[1].values[i][j]]]
    ELSE <<>>

\* what building the statement may throw in exec (query.toString() runs a
\* where function): nothing, or an error whose message ends with
\* 'of undefined'
Thrown == {"none", "of undefined"}

\* select's catch: if (e.message.endsWith('of undefined'))
\*                   return Promise.resolve(undefined)
Swallowed(d, f) ==
  [db |-> d, file |-> f, ok |-> TRUE, exported |-> FALSE, heard |-> FALSE,
   error |-> NoError, writeFailed |-> FALSE, own |-> 0,
   sentN |-> 0, reported |-> 0]

\* select: the rows parsed from the result, as an array
select(thrown) ==
  IF thrown = "of undefined"
    THEN CalledWith("select", "select", Swallowed(db, file), "undefined",
                    [defined |-> FALSE, n |-> 0])
    ELSE LET e == Handled(ExecEffect(db, file, "select"))
         IN CalledWith("select", "select", e,
                       IF e.ok THEN "array" ELSE "",
                       IF e.ok THEN [defined |-> TRUE,
                                     n |-> Len(_parseResponse(Contents(db)))]
                               ELSE NoValue)

first == Called("first", "select", Handled(ExecEffect(db, file, "select")))

\* a column must be given, apart or in the table path
getValue(columnOk) ==
  Called("getValue", "select",
         IF columnOk THEN Handled(ExecEffect(db, file, "select"))
                     ELSE Refused(db, file))

update(writeOk) ==
  Called("update", "update", Handled(RunEffect(db, file, "update", writeOk)))

increment(columnOk, writeOk) ==
  Called("increment", "update",
         IF columnOk THEN Handled(RunEffect(db, file, "update", writeOk))
                     ELSE Refused(db, file))

decrement(columnOk, writeOk) ==
  Called("decrement", "update",
         IF columnOk THEN Handled(RunEffect(db, file, "update", writeOk))
                     ELSE Refused(db, file))

del(writeOk) ==
  Called("del", "delete", Handled(RunEffect(db, file, "delete", writeOk)))

\* db.prepare(query).getAsObject({}): no verbose call, no export
count(res) ==
  LET e == [Handled(ExecEffect(db, file, "select")) EXCEPT !.reported = 0]
  IN CalledWith("count", "select", e,
                IF e.ok THEN res ELSE "",
                IF e.ok THEN CountValue(res, db.rows) ELSE NoValue)

\* what the promise of a call resolves with: the rows-modified counter read
\* after the await for insert / update / del
ResolvedWith(p, d) ==
  IF p.op \in RowCounters THEN d.modified ELSE 0

NoneSettled == [state |-> "none", value |-> 0]

\* a pending promise settles
settle(i) ==
  /\ i \in 1..Len(pend)
  /\ settled' = [state |-> IF pend[i].ok THEN "resolved" ELSE "rejected",
                 value |-> IF pend[i].ok THEN ResolvedWith(pend[i], db) ELSE 0]
  /\ pend' = SubSeq(pend, 1, i - 1) \o SubSeq(pend, i + 1, Len(pend))
  /\ UNCHANGED <<db, file, lost, opened, hookVars, opVars, cellVars, handleVars, argVars>>

\* the images a backing file may hold when the datastore is opened
InitialImages ==
  {Export(d) : d \in {EmptyDb, [EmptyDb EXCEPT !.table = TRUE],
                      [EmptyDb EXCEPT !.table = TRUE, !.rows = 1]}}

\* new Trilogy(fileName): db is null until _init runs; the backing file
\* may exist already
InitDb ==
  /\ db = EmptyDb
  /\ file \in {NoFile} \cup {[exists |-> TRUE, image |-> image] :
                               image \in InitialImages}
  /\ lost = FALSE
  /\ opened = FALSE
  /\ pend = <<>>
  /\ settled = NoneSettled

\* _init(): read the file if it exists, else create an empty engine and
\* _write() it
init(writeOk) ==
  /\ ~opened
  /\ opened' = TRUE
  /\ IF file.exists
       THEN /\ db' = Load(file.image)
            /\ file' = file
            /\ lost' = FALSE
       ELSE /\ db' = EmptyDb
            /\ file' = WriteEffect(EmptyDb, file, writeOk).file
            /\ lost' = ~writeOk
  /\ UNCHANGED <<pend, settled, hookVars, opVars, cellVars, handleVars, argVars>>

\* no datastore is open
InitNoDb ==
  /\ db = EmptyDb
  /\ file = NoFile
  /\ lost = FALSE
  /\ opened = FALSE
  /\ pend = <<>>
  /\ settled = NoneSettled

(***************************************************************************)
(* decrement: the update expression and its evaluation by the engine       *)
(***************************************************************************)
Max(a, b) == IF a >= b THEN a ELSE b

\* rawStr with the clamp left out
RawStrUnclamped(amount, allowNegative) ==
  [fn |-> "-", amount |-> amount]

\* rawStr = allowNegative ? `${col} - ${amount}` : `MAX(0, ${col} - ${amount})`
RawStr(amount, allowNegative) ==
  IF allowNegative THEN [fn |-> "-", amount |-> amount]
                   ELSE [fn |-> "MAX(0, -)", amount |-> amount]

\* the engine evaluates the expression for a row whose column holds v
Evaluate(expr, v) ==
  IF expr.fn = "-" THEN v - expr.amount
                   ELSE Max(0, v - expr.amount)

NoDecrement == [amount |-> 0, allowNegative |-> FALSE, before |-> 0]

\* a row whose column holds v, before any decrement
StartCell(v) ==
  [v |-> v, start |-> v, n |-> 0, allClamped |-> TRUE, last |-> NoDecrement]

\* db.decrement(table, column, amount, where, allowNegative) on the row
decrementStored(amount, allowNegative) ==
  /\ cell.n < MaxDecrements
  /\ cell' = [v |-> Evaluate(RawStr(amount, allowNegative), cell.v),
              start |-> cell.start,
              n |-> cell.n + 1,
              allClamped |-> cell.allClamped /\ ~allowNegative,
              last |-> [amount |-> amount, allowNegative |-> allowNegative,
                        before |-> cell.v]]
  /\ UNCHANGED <<hookVars, opVars, dbVars, handleVars, argVars>>

InitCell == \E v \in -MaxStored..MaxStored : cell = StartCell(v)

InitNoCell == cell = StartCell(0)

(***************************************************************************)
(* The where argument: _isValidWhere as the test of the argument forms     *)
(***************************************************************************)
\* the values a caller may pass as where
WhereValues ==
  [type : {"plain object", "class instance", "function", "string", "number",
           "boolean", "null"}, length : {0}]
    \cup [type : {"array"}, length : 0..MaxArray]

\* the operations that take a where argument
WhereOps ==
  {"select", "first", "getValue", "update", "increment", "decrement", "del",
   "count"}

\* a test that lets every array pass
_isValidWhereAnyArray(where) ==
  \/ where.type = "plain object"
  \/ where.type = "array"
  \/ where.type = "function"

\* if (_.isPlainObject(where)) return true
\* if (Array.isArray(where)) return len === 2 || len === 3
\* return _.isFunction(where)
_isValidWhere(where) ==
  IF where.type = "plain object" THEN TRUE
  ELSE IF where.type = "array" THEN where.length = 2 \/ where.length = 3
  ELSE where.type = "function"

NoCriteria ==
  [op |-> "", where |-> [type |-> "null", length |-> 0], stage |-> "none",
   statements |-> 0, writes |-> 0]

\* the operation is called: arify tests the argument against the form, and
\* throws when the test fails
whereCall(opName, where) ==
  /\ criteria.stage # "handler"
  /\ criteria' = [op |-> opName, where |-> where,
                  stage |-> IF _isValidWhere(where) THEN "handler"
                                                   ELSE "thrown",
                  statements |-> 0, writes |-> 0]
  /\ UNCHANGED <<path, hookVars, opVars, dbVars, cellVars, handleVars>>

\* the handler builds the statement with _sanitizeWhere and hands it to exec
\* (reads) or run (writes, followed by _write)
whereHandler ==
  /\ criteria.stage = "handler"
  /\ criteria' =
       [criteria EXCEPT
          !.stage = "done",
          !.statements = 1,
          !.writes = IF criteria.op \in {"update", "increment", "decrement",
                                         "del"} THEN 1 ELSE 0]
  /\ UNCHANGED <<path, hookVars, opVars, dbVars, cellVars, handleVars>>

(***************************************************************************)
(* Table paths: _parseTablePath over strings as sequences of characters    *)
(***************************************************************************)
Letters == {"a", "b"}

\* the names a caller gives: strings of letters
Names == UNION {[1..n -> Letters] : n \in 0..MaxName}

\* an argument that is not given
UndefinedString == <<"undefined">>

\* String.prototype.indexOf(ch, from): 0-based, -1 when absent
IndexOf(str, ch, from) ==
  LET hits == {i \in 1..Len(str) : i - 1 >= from /\ str[i] = ch}
  IN IF hits = {} THEN -1
     ELSE (CHOOSE i \in hits : \A j \in hits : i <= j) - 1

Includes(str, ch) == IndexOf(str, ch, 0) # -1

\* String.prototype.slice(start, end) with 0-based bounds; a negative end
\* counts from the end of the string
Slice(str, start, end) ==
  LET e == IF end < 0 THEN Max(0, Len(str) + end)
           ELSE IF end > Len(str) THEN Len(str) ELSE end
  IN IF start >= e THEN <<>> ELSE SubSeq(str, start + 1, e)

\* String.prototype.substr(start, length)
Substr(str, start, length) ==
  IF length <= 0 THEN <<>> ELSE Slice(str, start, start + length)

\* String.prototype.split('.')
RECURSIVE Split(_)
Split(str) ==
  LET dot == IndexOf(str, ".", 0)
  IN IF dot = -1 THEN <<str>>
     ELSE <<Slice(str, 0, dot)>> \o Split(Slice(str, dot + 1, Len(str)))

\* array destructuring: a missing element is undefined
At(parts, i) == IF i <= Len(parts) THEN parts[i] ELSE UndefinedString

\* a parser that knows the dot notation only
_parseTablePathDotOnly(table, column, row) ==
  IF Includes(table, ".")
    THEN <<At(Split(table), 1), At(Split(table), 2), At(Split(table), 3)>>
    ELSE <<table, column, row>>

RECURSIVE _parseTablePath(_, _, _)
_parseTablePath(table, column, row) ==
  IF Includes(table, ".")
    THEN LET parts == Split(table)
         IN _parseTablePath(At(parts, 1), At(parts, 2), At(parts, 3))
  ELSE IF Includes(table, "[")
    THEN LET opener == IndexOf(table, "[", 0)
             closer == IndexOf(table, "]", opener)
             top == Substr(table, 0, opener)
             inner == Slice(table, opener + 1, closer)
             rowIndex == Len(top) + Len(inner) + 2
             extra == Slice(table, rowIndex + 1, Len(table))
             nested == IF rowIndex < Len(table)
                         THEN Substr(extra, 0, IndexOf(extra, "]", 0))
                         ELSE UndefinedString
         IN _parseTablePath(top, inner, nested)
  ELSE <<table, column, row>>

\* the three notations of a column c of a table t
Notations == {"table, column", "table.column", "table[column]"}

NoPath ==
  [notation |-> "", t |-> <<>>, c |-> <<>>,
   parsed |-> <<<<>>, UndefinedString, UndefinedString>>]

\* getValue / increment / decrement: _parseTablePath(args.table, args.column)
parseTablePath(notation, t, c) ==
  /\ path' =
       [notation |-> notation, t |-> t, c |-> c,
        parsed |->
          CASE notation = "table, column" ->
                 _parseTablePath(t, c, UndefinedString)
            [] notation = "table.column" ->
                 _parseTablePath(t \o <<".">> \o c, UndefinedString,
                                 UndefinedString)
            [] OTHER ->
                 _parseTablePath(t \o <<"[">> \o c \o <<"]">>,
                                 UndefinedString, UndefinedString)]
  /\ UNCHANGED <<criteria, hookVars, opVars, dbVars, cellVars, handleVars>>

InitArgs ==
  /\ criteria = NoCriteria
  /\ path = NoPath

(***************************************************************************)
(* The database handle: constructor, use, model, dropModel, raw, close     *)
(***************************************************************************)
Clients == {"sqlite3", "sql.js"}

\* properties of the handle that an extending object may name
Keys == {"isNative", "pool", "verbose", "hello"}

Undefined == "undefined"

\* a value that a plugin's extending object holds
Extension == "extension"

ModelNames == {"users", "posts"}

Schemas == {"schema 1", "schema 2"}

\* the tables the backend may hold when the handle is constructed
InitialTables == {{}, {"users"}}

\* the extending objects a plugin hands to extend, by their keys
Objects == {{"hello"}, {"isNative", "pool", "hello"}}

\* no model: Map.get of a missing key
None == [schema |-> ""]

\* new ModelClass(this, name, schema, options)
NewModel(schema) == [schema |-> schema]

\* a lookup that never finds the name
HasNever(defs, name) == FALSE

\* this._definitions.has(name)
Has(defs, name) == defs[name] # None

\* if (this.isNative)
IsNative == self["isNative"] # "false"

\* constructor: isNative = obj.client === 'sqlite3'; an embedded handle gets
\* a pool
InitHandle ==
  /\ options \in [client : Clients]
  /\ self = [k \in Keys |->
               CASE k = "isNative" ->
                      IF options.client = "sqlite3" THEN "true" ELSE "false"
                 [] k = "pool" ->
                      IF options.client = "sqlite3" THEN Undefined
                                                    ELSE "object"
                 [] k = "verbose" -> "function"
                 [] OTHER -> Undefined]
  /\ definitions = [n \in ModelNames |-> None]
  /\ tables \in InitialTables
  /\ jobs = {}
  /\ sent = [n \in ModelNames |-> 0]
  /\ returned = [def |-> None, asked |-> "", drop |-> "none"]
  /\ pool = [borrowed |-> 0, state |-> "open", released |-> FALSE]
  /\ counts = [model |-> 0, named |-> FALSE]

\* no handle is constructed
InitNoHandle ==
  /\ options = [client |-> "sql.js"]
  /\ self = [k \in Keys |-> IF k = "isNative" THEN "false" ELSE Undefined]
  /\ definitions = [n \in ModelNames |-> None]
  /\ tables = {}
  /\ jobs = {}
  /\ sent = [n \in ModelNames |-> 0]
  /\ returned = [def |-> None, asked |-> "", drop |-> "none"]
  /\ pool = [borrowed |-> 0, state |-> "open", released |-> FALSE]
  /\ counts = [model |-> 0, named |-> FALSE]

\* extend that skips only the keys whose value is truthy
ExtendOverFalsy(me, object) ==
  [k \in Keys |-> IF k \in object /\ me[k] \in {Undefined, "false"}
                    THEN Extension ELSE me[k]]

\* extend: for (const key of Object.keys(object))
\*           { if (this[key] != null) continue; this[key] = value }
Extend(me, object) ==
  [k \in Keys |-> IF k \in object /\ me[k] = Undefined
                    THEN Extension ELSE me[k]]

\* use(plugin): the plugin is called with extend and hands it an object with
\* the given keys; a plugin that is not a function is refused
use(plugin, object) ==
  /\ counts' = [counts EXCEPT !.named = @ \/ (plugin # NotAFunction /\
                                              "isNative" \in object)]
  /\ self' = IF plugin = NotAFunction THEN self ELSE Extend(self, object)
  /\ UNCHANGED <<options, definitions, tables, jobs, sent, returned, pool,
                 hookVars, opVars, dbVars, cellVars, argVars>>

\* the pool (or the connection) takes statements
Accepting == pool.state = "open"

\* model(name, schema): a defined name gives the stored model; else a new
\* model is stored and the table is looked up (hasTable)
model(name, schema) ==
  /\ counts.model < MaxModelCalls
  /\ Accepting
  /\ counts' = [counts EXCEPT !.model = @ + 1]
  /\ IF Has(definitions, name)
       THEN /\ returned' = [returned EXCEPT !.def = definitions[name],
                                            !.asked = schema]
            /\ UNCHANGED <<definitions, jobs>>
       ELSE /\ definitions' =
                 [definitions EXCEPT
                    ![name] = NewModel(schema)]
            /\ jobs' = jobs \cup
                 {[kind |-> "model", name |-> name, phase |-> "check",
                   def |-> NewModel(schema)]}
            /\ UNCHANGED returned
  /\ UNCHANGED <<options, self, tables, sent, pool,
                 hookVars, opVars, dbVars, cellVars, argVars>>

\* const exists = await check: an existing table resolves the call, else
\* the create-table statement is sent
modelChecked(job) ==
  /\ job \in jobs
  /\ job.kind = "model" /\ job.phase = "check"
  /\ Accepting
  /\ pool.borrowed = 0
  /\ IF job.name \in tables
       THEN /\ jobs' = jobs \ {job}
            /\ UNCHANGED sent
       ELSE /\ jobs' = (jobs \ {job}) \cup {[job EXCEPT !.phase = "create"]}
            /\ sent' = [sent EXCEPT ![job.name] = @ + 1]
  /\ UNCHANGED <<options, self, definitions, tables, returned, pool, counts,
                 hookVars, opVars, dbVars, cellVars, argVars>>

\* await check rejects: model() rejects and nothing after the await runs
modelCheckFailed(job) ==
  /\ job \in jobs
  /\ job.kind = "model" /\ job.phase = "check"
  /\ Accepting
  /\ pool.borrowed = 0
  /\ jobs' = jobs \ {job}
  /\ UNCHANGED <<options, self, definitions, tables, sent, returned, pool,
                 counts, hookVars, opVars, dbVars, cellVars, argVars>>

\* query.then(() => model): the backend created the table, or failed
modelCreated(job, ok) ==
  /\ job \in jobs
  /\ job.kind = "model" /\ job.phase = "create"
  /\ Accepting
  /\ pool.borrowed = 0
  /\ jobs' = jobs \ {job}
  /\ tables' = IF ok THEN tables \cup {job.name} ELSE tables
  /\ UNCHANGED <<options, self, definitions, sent, returned, pool, counts,
                 hookVars, opVars, dbVars, cellVars, argVars>>

\* dropModel(name): false for an unknown name, else the drop statement is
\* sent
dropModel(name) ==
  /\ Accepting
  /\ \A job \in jobs : ~(job.kind = "drop" /\ job.name = name)
  /\ IF Has(definitions, name)
       THEN /\ jobs' = jobs \cup
                 {[kind |-> "drop", name |-> name, phase |-> "drop",
                   def |-> definitions[name]]}
            /\ UNCHANGED returned
       ELSE /\ returned' = [returned EXCEPT !.drop = "false"]
            /\ UNCHANGED jobs
  /\ UNCHANGED <<options, self, definitions, tables, sent, pool,
                 counts, hookVars, opVars, dbVars, cellVars, argVars>>

\* a dropModel that deletes the definition whatever the statement did
DefinitionsAfterDropAlways(defs, name, ok) == [defs EXCEPT ![name] = None]

\* await runQuery(...); this._definitions.delete(name): the delete is reached
\* only when the statement succeeded
DefinitionsAfterDrop(defs, name, ok) ==
  IF ok THEN [defs EXCEPT ![name] = None] ELSE defs

\* await runQuery(drop table if exists); this._definitions.delete(name)
dropped(job, ok) ==
  /\ job \in jobs
  /\ job.kind = "drop"
  /\ Accepting
  /\ pool.borrowed = 0
  /\ jobs' = jobs \ {job}
  /\ tables' = IF ok THEN tables \ {job.name} ELSE tables
  /\ definitions' = DefinitionsAfterDrop(definitions, job.name, ok)
  /\ returned' = IF ok THEN [returned EXCEPT !.drop = "true"] ELSE returned
  /\ UNCHANGED <<options, self, sent, pool, counts,
                 hookVars, opVars, dbVars, cellVars, argVars>>

\* the statement of a pending call finds the handle closing or closed: the
\* call is rejected
refused(job) ==
  /\ job \in jobs
  /\ ~Accepting
  /\ jobs' = jobs \ {job}
  /\ UNCHANGED <<options, self, definitions, tables, sent, returned, pool,
                 counts, hookVars, opVars, dbVars, cellVars, argVars>>

\* raw(query): runQuery checks the engine out of the pool
rawQuery ==
  /\ Accepting
  /\ pool.borrowed = 0
  /\ pool' = [pool EXCEPT !.borrowed = 1]
  /\ UNCHANGED <<options, self, definitions, tables, jobs, sent, returned,
                 counts, hookVars, opVars, dbVars, cellVars, argVars>>

\* the statement is done: the engine goes back to the pool
rawDone ==
  /\ pool.borrowed = 1
  /\ pool' = [pool EXCEPT !.borrowed = 0]
  /\ UNCHANGED <<options, self, definitions, tables, jobs, sent, returned,
                 counts, hookVars, opVars, dbVars, cellVars, argVars>>

\* close(): knex.destroy() on a native handle, pool.drain() on an embedded one
close ==
  /\ pool.state = "open"
  /\ pool' = [pool EXCEPT !.state = "closing"]
  /\ UNCHANGED <<options, self, definitions, tables, jobs, sent, returned,
                 counts, hookVars, opVars, dbVars, cellVars, argVars>>

\* what is released when close()'s promise resolves: knex.destroy() ends the
\* driver connection; pool.drain() waits for the checkouts and leaves the
\* idle engines in the pool (destroying them is pool.clear())
ReleasedOnClose(native) == native

\* close()'s promise resolves: drain() waits until every checkout is returned
closeSettled ==
  /\ pool.state = "closing"
  /\ IsNative \/ pool.borrowed = 0
  /\ pool' = [pool EXCEPT !.state = "closed",
                          !.released = ReleasedOnClose(IsNative)]
  /\ UNCHANGED <<options, self, definitions, tables, jobs, sent, returned,
                 counts, hookVars, opVars, dbVars, cellVars, argVars>>

(***************************************************************************)
(* Specification                                                           *)
(***************************************************************************)
InitHooks ==
  /\ listeners = [n \in SetNames |-> <<>>]
  /\ order = [n \in SetNames |-> <<>>]
  /\ call = NoCall
  /\ live = [k \in Kinds |-> 0]
  /\ used = [k \in Kinds |-> 0]
  /\ nRegs = 0

InitOps ==
  /\ op = NoOp
  /\ store = 0

Init ==
  /\ InitHooks
  /\ InitOps
  /\ InitNoDb
  /\ InitNoCell
  /\ InitNoHandle
  /\ InitArgs

Next ==
  \/ \E fn \in Fns \cup {NotAFunction}, incl \in BOOLEAN : onQuery(fn, incl)
  \/ \E fn \in Fns \cup {NotAFunction} : beforeCreate(fn)
  \/ \E fn \in Fns \cup {NotAFunction} : afterCreate(fn)
  \/ \E fn \in Fns \cup {NotAFunction} : beforeUpdate(fn)
  \/ \E fn \in Fns \cup {NotAFunction} : afterUpdate(fn)
  \/ \E fn \in Fns \cup {NotAFunction} : beforeRemove(fn)
  \/ \E fn \in Fns \cup {NotAFunction} : afterRemove(fn)
  \/ \E k \in Kinds : Remove(k)
  \/ \E k \in Kinds : RemoveAgain(k)
  \/ \E hook \in Hook, internal \in BOOLEAN : callHookEnter(hook, internal)
  \/ callHookInvoke
  \/ \E ret \in Outcomes : callHookSettle(ret)
  \/ callHookReturn

NextOps ==
  \/ \E fn \in Fns \cup {NotAFunction}, incl \in BOOLEAN : onQuery(fn, incl)
  \/ \E fn \in Fns \cup {NotAFunction} : beforeCreate(fn)
  \/ \E fn \in Fns \cup {NotAFunction} : afterCreate(fn)
  \/ \E fn \in Fns \cup {NotAFunction} : beforeUpdate(fn)
  \/ \E fn \in Fns \cup {NotAFunction} : afterUpdate(fn)
  \/ \E fn \in Fns \cup {NotAFunction} : beforeRemove(fn)
  \/ \E fn \in Fns \cup {NotAFunction} : afterRemove(fn)
  \/ \E k \in Kinds : Remove(k)
  \/ \E kind \in OpKinds : opBegin(kind)
  \/ opFireBefore
  \/ opPrevented
  \/ opExecute
  \/ opBackendFails
  \/ opReturn
  \/ opHookThrew
  \/ callHookInvoke
  \/ \E ret \in Outcomes : callHookSettle(ret)
  \/ callHookReturn

NextDb ==
  \/ \E writeOk \in BOOLEAN : init(writeOk)
  \/ \E q \in Stmts, writeOk \in BOOLEAN : run(q, writeOk)
  \/ \E q \in Stmts : exec(q)
  \/ \E q \in Stmts, ret \in BOOLEAN, writeOk \in BOOLEAN : raw(q, ret, writeOk)
  \/ \E columnsOk \in BOOLEAN, writeOk \in BOOLEAN : createTable(columnsOk, writeOk)
  \/ hasTable
  \/ \E tableOk \in BOOLEAN, writeOk \in BOOLEAN : insert(tableOk, writeOk)
  \/ \E thrown \in Thrown : select(thrown)
  \/ first
  \/ \E columnOk \in BOOLEAN : getValue(columnOk)
  \/ \E writeOk \in BOOLEAN : update(writeOk)
  \/ \E columnOk \in BOOLEAN, writeOk \in BOOLEAN : increment(columnOk, writeOk)
  \/ \E columnOk \in BOOLEAN, writeOk \in BOOLEAN : decrement(columnOk, writeOk)
  \/ \E writeOk \in BOOLEAN : del(writeOk)
  \/ \E res \in CountResults : count(res)
  \/ \E i \in 1..(MaxPending + MaxOverlap) : settle(i)

vars == <<hookVars, opVars, dbVars, cellVars, handleVars, argVars>>

\* the hook registry and _callHook
Spec == Init /\ [][Next]_vars

\* create / update / remove passing through the registry
SpecOps == Init /\ [][NextOps]_vars

InitStore ==
  /\ InitHooks
  /\ InitOps
  /\ InitDb
  /\ InitNoCell
  /\ InitNoHandle
  /\ InitArgs

\* the embedded datastore
SpecDb == InitStore /\ [][NextDb]_vars

NextDecrement ==
  \E amount \in -MaxAmount..MaxAmount, allowNegative \in BOOLEAN :
    decrementStored(amount, allowNegative)

InitDecrement ==
  /\ InitHooks
  /\ InitOps
  /\ InitNoDb
  /\ InitCell
  /\ InitNoHandle
  /\ InitArgs

\* decrement on one stored integer
SpecDecrement == InitDecrement /\ [][NextDecrement]_vars

NextHandle ==
  \/ \E plugin \in {"function", NotAFunction}, object \in Objects :
       use(plugin, object)
  \/ \E name \in ModelNames, schema \in Schemas : model(name, schema)
  \/ \E job \in jobs : modelChecked(job)
  \/ \E job \in jobs : modelCheckFailed(job)
  \/ \E job \in jobs, ok \in BOOLEAN : modelCreated(job, ok)
  \/ \E name \in ModelNames : dropModel(name)
  \/ \E job \in jobs, ok \in BOOLEAN : dropped(job, ok)
  \/ \E job \in jobs : refused(job)
  \/ rawQuery
  \/ rawDone
  \/ close
  \/ closeSettled

InitTrilogy ==
  /\ InitHooks
  /\ InitOps
  /\ InitNoDb
  /\ InitNoCell
  /\ InitHandle
  /\ InitArgs

\* the database handle
SpecHandle == InitTrilogy /\ [][NextHandle]_vars

NextWhere ==
  \/ \E opName \in WhereOps, where \in WhereValues : whereCall(opName, where)
  \/ whereHandler

InitWhere ==
  /\ InitHooks
  /\ InitOps
  /\ InitNoDb
  /\ InitNoCell
  /\ InitNoHandle
  /\ InitArgs

\* operations called with a where argument
SpecWhere == InitWhere /\ [][NextWhere]_vars

NextPath ==
  \E notation \in Notations, t \in Names, c \in Names :
    parseTablePath(notation, t, c)

\* table paths as getValue, increment and decrement parse them
SpecPath == InitWhere /\ [][NextPath]_vars

TypeOK ==
  /\ \A n \in SetNames : Members(listeners[n]) \subseteq Fns
  /\ nRegs \in 0..MaxRegs
  /\ call.st \in {"idle", "next", "await", "resolved", "rejected"}
  /\ op.phase \in {"idle", "query", "before", "after", "resolved", "rejected"}
  /\ store \in 0..MaxWrites
  /\ db.rows \in 0..MaxRows
  /\ Len(pend) <= MaxPending + MaxOverlap

(***************************************************************************)
(* Properties                                                              *)
(***************************************************************************)
\* the callbacks invoked by the call so far, in the order of invocation
LogFns(c) == [i \in 1..Len(c.log) |-> c.log[i].fn]

Invocations(c, fn) == {i \in 1..Len(c.log) : c.log[i].fn = fn}

KindOf(hook, fn, includeInternal) ==
  [hook |-> hook, fn |-> fn, includeInternal |-> includeInternal]

\* C1: when _callHook returns, prevented is true exactly if some callback's
\* awaited result was EventCancellation, and every callback that was
\* registered for the event when the firing started (and was not unregistered
\* while it ran) has been invoked, whether or not an earlier one cancelled.
C1_PreventedIffCancelled ==
  call.st = "resolved" =>
    /\ call.prevented <=> HasCancel(call)
    /\ \A fn \in Members(call.start) \ call.removed : Invocations(call, fn) # {}

\* C1 witness: a firing returned prevented after its first callback cancelled
\* and a later callback was still invoked
C1_Witness ==
  /\ call.st = "resolved"
  /\ call.prevented
  /\ Len(call.log) >= 2
  /\ call.log[1].ret = EventCancellation
  /\ call.log[2].ret = "value"

\* C2: the callbacks of one firing are invoked in registration order and one
\* after another: at most one invoked callback has not settled, it is the
\* most recently invoked one, and (no callback having been unregistered
\* during the firing) the invocations follow the order of first registration.
C2_Sequential ==
  call.st # "idle" =>
    /\ Cardinality(Pending(call)) <= 1
    /\ Pending(call) \subseteq {Len(call.log)}
    /\ Pending(call) # {} <=> call.st = "await"
    /\ call.removed = {} =>
         /\ Len(call.log) <= Len(order[FnsOf(call.hook, call.internal)])
         /\ LogFns(call) =
              SubSeq(order[FnsOf(call.hook, call.internal)], 1, Len(call.log))

\* C2 witness: the second callback of a firing is in progress, the first has
\* settled
C2_Witness ==
  /\ call.st = "await"
  /\ Len(call.log) = 2
  /\ call.log[1].ret # "pending"
  /\ call.log[2].ret = "pending"
  /\ call.log[1].fn # call.log[2].fn

\* whether a before-* callback of the operation returned EventCancellation
BeforeVetoed ==
  \/ op.phase = "before" /\ HasCancel(call)
  \/ op.phase \in {"after", "resolved", "rejected"} /\ op.vetoed

\* C3 (as claimed): once a before-* callback of create / update / remove has
\* returned EventCancellation, no statement of the operation reaches the
\* backend, the stored data is unchanged, and the operation does not reject
\* but resolves with the zero outcome.
C3_VetoResolvesZero ==
  BeforeVetoed =>
    /\ ~op.sent
    /\ store = op.was
    /\ op.phase \in {"before", "resolved"}
    /\ op.phase = "resolved" => op.n = 0

\* C3 (amended): once a before-* callback has returned EventCancellation, no
\* statement of the operation reaches the backend and the stored data is
\* unchanged; the operation resolves with the zero outcome unless a callback
\* of the same firing throws, in which case it rejects with that error.
C3_VetoSendsNothing ==
  BeforeVetoed =>
    /\ ~op.sent
    /\ store = op.was
    /\ op.phase \in {"before", "resolved", "rejected"}
    /\ op.phase = "resolved" => op.n = 0
    /\ op.phase = "rejected" =>
         /\ call.st = "rejected"
         /\ op.error = call.error
         /\ op.error \in Fns

\* C3 witness: an operation whose before-* callback cancelled has resolved
\* with the zero outcome while the backend holds data
C3_Witness ==
  /\ op.phase = "resolved"
  /\ op.vetoed
  /\ op.n = 0
  /\ ~op.sent
  /\ store > 0

\* C4: invoking a removal capability is idempotent: in every reachable state
\* of the registry, and for the capability of every register function,
\* invoking it twice leaves every listener set as invoking it once does.
\* (The closure is a Set delete and has no failing outcome.)
C4_RemovalIdempotent ==
  \A k \in Kinds :
    Unregistered(Unregistered(listeners, k), k) = Unregistered(listeners, k)

\* C4 witness: a capability returned with includeInternal has been invoked a
\* second time and its callback is in neither on-query set
C4_Witness ==
  \E fn \in Fns :
    /\ used[KindOf(OnQuery, fn, TRUE)] = 2
    /\ ~SetHas(listeners["_onQuery"], fn)
    /\ ~SetHas(listeners["_onQueryAll"], fn)

\* C5 (as claimed): a registration whose own removal capability has not been
\* invoked is still fired: its callback is in the set that _callHook
\* iterates for its event.
C5_OwnCapabilityOnly ==
  \A k \in Kinds :
    live[k] > 0 =>
      /\ SetHas(listeners[FnsOf(k.hook, FALSE)], k.fn)
      /\ k.includeInternal => SetHas(listeners[FnsOf(k.hook, TRUE)], k.fn)

\* C6: listener sets are de-duplicated: no set holds a callback twice, a set's
\* entries stay in the order of first registration, and a firing (during
\* which no callback was unregistered) that returns has invoked each callback
\* registered at its start exactly once.
C6_Deduplicated ==
  /\ \A n \in SetNames :
       /\ Cardinality(Members(listeners[n])) = Len(listeners[n])
       /\ listeners[n] = order[n]
  /\ (call.st = "resolved" /\ call.removed = {}) =>
       \A fn \in Members(call.start) : Cardinality(Invocations(call, fn)) = 1

\* C6 witness: f was registered twice for an event and g once; the firing
\* invoked f once, then g
C6_Witness ==
  \E h \in Hook \ {OnQuery} :
    /\ live[KindOf(h, "f", FALSE)] = 2
    /\ live[KindOf(h, "g", FALSE)] = 1
    /\ call.st = "resolved"
    /\ call.hook = h
    /\ call.removed = {}
    /\ LogFns(call) = <<"f", "g">>

\* callbacks none of whose on-query removal capabilities has been invoked
NeverRemovedQuery(fn) ==
  /\ used[KindOf(OnQuery, fn, TRUE)] = 0
  /\ used[KindOf(OnQuery, fn, FALSE)] = 0

\* C7: an on-query firing with internal = true invokes exactly the callbacks
\* registered with includeInternal = true, one with internal = false invokes
\* every registered on-query callback, and a callback registered only
\* without options is not invoked for an internal query (stated for the
\* callbacks that have not been unregistered).
C7_InternalFlag ==
  (call.st = "resolved" /\ call.hook = OnQuery) =>
    \A fn \in {x \in Fns : NeverRemovedQuery(x)} :
      /\ Invocations(call, fn) # {} => fn \in LiveFor(OnQuery, call.internal)
      /\ fn \in call.startLive => Invocations(call, fn) # {}

\* C7 witness: an internal query was reported to f (registered with
\* includeInternal) and not to g (registered without options)
C7_Witness ==
  /\ call.st = "resolved"
  /\ call.hook = OnQuery
  /\ call.internal
  /\ LogFns(call) = <<"f">>
  /\ live[KindOf(OnQuery, "g", FALSE)] > 0
  /\ live[KindOf(OnQuery, "g", TRUE)] = 0
  /\ NeverRemovedQuery("g")

\* some callback of the call threw
HasThrow(c) == \E i \in 1..Len(c.log) : c.log[i].ret = "throws"

\* C8: when a callback throws (or its promise rejects) _callHook rejects with
\* that callback's error, invokes nothing further and produces no
\* {prevented} result; the operation that fired the hook rejects with the
\* same error, and sends no statement when the hook ran before the statement.
C8_ThrowRejects ==
  /\ HasThrow(call) =>
       /\ call.st = "rejected"
       /\ call.log[Len(call.log)].ret = "throws"
       /\ call.error = call.log[Len(call.log)].fn
  /\ call.st = "rejected" => HasThrow(call)
  /\ (HasThrow(call) /\ op.phase # "idle") =>
       /\ op.phase \in {"query", "before", "after", "rejected"}
       /\ op.phase = "rejected" => op.error = call.error
       /\ call.hook # AfterOf(op.kind) => ~op.sent /\ store = op.was

\* C8 witness: create / update / remove was rejected with the error of its
\* before-* callback after an earlier callback had returned normally
C8_Witness ==
  /\ op.phase = "rejected"
  /\ op.error \in Fns
  /\ call.hook = BeforeOf(op.kind)
  /\ Len(call.log) = 2
  /\ call.log[2].ret = "throws"
  /\ ~op.sent

\* C9 (as claimed): on an embedded database, whenever no operation is pending
\* (and the last export reached the file) the backing file holds the export
\* of the engine's current in-memory state.
C9_FileIsExport ==
  (opened /\ pend = <<>> /\ ~lost) => file = Written(db)

\* C10 (as claimed): a statement that does not mutate schema or data never
\* triggers an export, whichever operation carries it.
C10_ReadOnlyNoExport ==
  \A i \in 1..Len(pend) : ~Mutates(pend[i].q) => ~pend[i].exported
\* the call issued most recently
LastCall(p) == p[Len(p)]

\* C11: when the engine rejects the statement passed to run, nothing is
\* exported for that call, the backing file and the engine are as before the
\* call, and the returned promise is rejected with the engine's own error.
C11_RunRejectedNoExport ==
  [][\A q \in Stmts, writeOk \in BOOLEAN :
       (run(q, writeOk) /\ ~Apply(db, q).ok) =>
         /\ file' = file
         /\ db' = db
         /\ ~LastCall(pend').exported
         /\ ~LastCall(pend').ok
         /\ LastCall(pend').error = EngineError]_vars

C11_Witness ==
  \E i \in 1..Len(pend) :
    /\ pend[i].op = "run"
    /\ ~pend[i].ok
    /\ pend[i].error = EngineError
    /\ file = Written(db)
    /\ db.rows > 0

\* C12 (as claimed): when the export or the file write fails after the
\* statement succeeded in the engine, the operation that issued the statement
\* is rejected.
C12_WriteFailureRejects ==
  \A i \in 1..Len(pend) : pend[i].writeFailed => ~pend[i].ok

\* C13 (as claimed): opening an embedded database loads an existing file and
\* leaves it unwritten; without a file it creates an empty engine and exports
\* it, so that the file exists when construction returns.
C13_OpenLoadsOrCreates ==
  [][\A writeOk \in BOOLEAN :
       init(writeOk) =>
         IF file.exists
           THEN db' = Load(file.image) /\ file' = file
           ELSE db' = EmptyDb /\ file' = Written(EmptyDb)]_vars

\* C14: a call's statement and its export are one step: the statement is
\* applied to the engine as the earlier calls left it, and the image that
\* reaches the file is the export of exactly that result, also while the
\* promises of earlier calls are unsettled.
C14_StatementAndExportAtomic ==
  [][\A q \in Stmts, writeOk \in BOOLEAN :
       (run(q, writeOk) /\ Apply(db, q).ok) =>
         /\ db' = Apply(db, q).db
         /\ writeOk => file' = Written(Apply(db, q).db)
         /\ ~writeOk => file' = file]_vars

C14_Witness ==
  /\ Len(pend) = 2
  /\ pend[1].op = "insert" /\ pend[1].exported
  /\ pend[2].op = "run" /\ pend[2].q = "insert" /\ pend[2].exported
  /\ ~pend[1].writeFailed /\ ~pend[2].writeFailed
  /\ db.rows = 2
  /\ file = Written(db)

\* C15 (as claimed): insert, update and del resolve with the number of rows
\* modified by the call's own statement.
C15_ResolvesWithOwnCount ==
  [][\A i \in 1..Len(pend) :
       (settle(i) /\ pend[i].ok /\ pend[i].op \in RowCounters)
         => settled'.value = pend[i].own]_vars

C17_DecrementClamps ==
  /\ cell.n > 0 =>
        cell.v = IF cell.last.allowNegative
                   THEN cell.last.before - cell.last.amount
                   ELSE Max(0, cell.last.before - cell.last.amount)
  /\ (cell.start >= 0 /\ cell.allClamped) => cell.v >= 0

C17_Witness ==
  /\ cell.n = MaxDecrements
  /\ cell.allClamped
  /\ cell.start > 0
  /\ cell.last.before > 0
  /\ cell.last.before - cell.last.amount < 0
  /\ cell.v = 0

\* C18 (as claimed): when close() has resolved, every checkout has been
\* returned and the pooled engines (or the driver connection) are released.
C18_CloseReleases ==
  pool.state = "closed" => (pool.borrowed = 0 /\ pool.released)

\* C19: isNative is what the constructor derived from the client option,
\* whatever use (with an extending object that names isNative), model,
\* dropModel, raw and close have done since.
C19_IsNativeFixed ==
  self["isNative"] = IF options.client = "sqlite3" THEN "true" ELSE "false"

C19_Witness ==
  /\ counts.named
  /\ self["hello"] = Extension
  /\ self["isNative"] = "false"
  /\ counts.model > 0
  /\ \E n \in ModelNames : sent[n] > 0 /\ ~Has(definitions, n)
  /\ pool.state = "closed"

\* C20: model(name, schema) for a name that is defined gives the model the
\* first call stored, and changes neither the definitions nor the pending
\* calls, nor sends a create-table statement, whatever the schema.
C20_ModelNamesUnique ==
  [][\A name \in ModelNames, schema \in Schemas :
       (model(name, schema) /\ definitions[name] # None) =>
         /\ returned'.def = definitions[name]
         /\ definitions' = definitions
         /\ jobs' = jobs
         /\ sent' = sent
         /\ tables' = tables]_vars

C20_Witness ==
  /\ returned.def # None
  /\ returned.asked # returned.def.schema
  /\ counts.model = 2
  /\ \A n \in ModelNames : sent[n] <= 1

C25_NotationsAgree ==
  path.notation # "" =>
    (path.parsed[1] = path.t /\ path.parsed[2] = path.c)

C25_Witness ==
  /\ path.notation = "table[column]"
  /\ Len(path.t) = MaxName
  /\ Len(path.c) = MaxName
  /\ path.t # path.c
  /\ path.parsed = <<path.t, path.c, UndefinedString>>

\* C22 (as claimed): every statement sent to the engine is reported to the
\* verbose function exactly once, whichever operation sends it.
C22_ReportedOnce ==
  \A i \in 1..Len(pend) : pend[i].reported = pend[i].sentN

\* C23 (as claimed): whenever the promise of a public operation is rejected,
\* the errorListener has been called with the error.
C23_ErrorsHeard ==
  \A i \in 1..Len(pend) : ~pend[i].ok => pend[i].heard

\* C24 (as claimed): a select that resolves gives an array of rows, never
\* undefined.
C24_SelectGivesArray ==
  \A i \in 1..Len(pend) :
    (pend[i].op = "select" /\ pend[i].ok) =>
      (pend[i].res = "array" /\ pend[i].value.defined)

\* C26 (as claimed): a firing that completes has invoked each callback that
\* was registered when it started exactly once, also when hooks were
\* registered or unregistered for the event while it was in progress.
C26_EachStartCallbackOnce ==
  call.st = "resolved" =>
    \A fn \in Members(call.start) : Cardinality(Invocations(call, fn)) = 1

\* C27 (as claimed): every callback that observes internal queries also
\* observes the others: _onQueryAll is a subset of _onQuery.
C27_InternalObserversSubset ==
  Members(listeners["_onQueryAll"]) \subseteq Members(listeners["_onQuery"])

\* C28: whenever a model(name, schema) promise resolves, the table of that
\* name exists: by the stored definition (the name is already defined), by the
\* existence check (the table is there) and by the create-table statement
\* (it succeeded); two overlapping model(name) calls included.
C28_ResolvedModelHasTable ==
  [][/\ \A name \in ModelNames, schema \in Schemas :
          (model(name, schema) /\ Has(definitions, name)) => name \in tables
     /\ \A job \in jobs :
          (modelChecked(job) /\ job.name \in tables) => job.name \in tables'
     /\ \A job \in jobs :
          modelCreated(job, TRUE) => job.name \in tables']_vars

\* C29: when the existence check or the create-table statement of model()
\* fails, the definitions are as before the call: the name is not defined
\* (getModel throws, a later model() sends the statements again).
C29_FailedModelNotDefined ==
  [][\A job \in jobs :
       (modelCheckFailed(job) \/ modelCreated(job, FALSE))
         => ~Has(definitions', job.name)]_vars

\* C30: dropModel removes the definition exactly when its drop statement
\* succeeded: a successful statement deletes the name and resolves true, a
\* failed one leaves the definitions as they were, a name that is not
\* defined resolves false without a statement, and nothing else removes a
\* definition.
C30_DropRemovesOnSuccess ==
  [][/\ \A job \in jobs :
          dropped(job, TRUE)
            => /\ ~Has(definitions', job.name)
               /\ \A n \in ModelNames \ {job.name} :
                    definitions'[n] = definitions[n]
               /\ returned'.drop = "true"
     /\ \A job \in jobs :
          (dropped(job, FALSE) \/ refused(job)) => definitions' = definitions
     /\ \A name \in ModelNames :
          (dropModel(name) /\ ~Has(definitions, name))
            => /\ definitions' = definitions
               /\ jobs' = jobs
               /\ tables' = tables
               /\ returned'.drop = "false"
     /\ \A n \in ModelNames :
          (Has(definitions, n) /\ ~Has(definitions', n))
            => \E job \in jobs : job.name = n /\ dropped(job, TRUE)]_vars

\* C30 witness: a dropModel resolved true for a model that had been defined
\* with its table created, and the name is not defined any more
C30_Witness ==
  /\ returned.drop = "true"
  /\ \E n \in ModelNames :
       /\ sent[n] > 0
       /\ ~Has(definitions, n)
       /\ n \notin tables
       /\ \A job \in jobs : job.name # n

=============================================================================
